---- MODULE Spec2Model ----
(***************************************************************************)
(* A state-machine model of the session engine of the `web` command        *)
(* (src/main.go): main, processRequest, handleForm, waitForSelector and    *)
(* waitForFunction, together with the browser page they drive.             *)
(*                                                                         *)
(* The program is one thread of control.  Each action below is one call of *)
(* the program to the driver (or one evaluation of a poll condition); the  *)
(* Env* actions are what the page does on its own between two calls.       *)
(***************************************************************************)
EXTENDS Integers, Sequences, FiniteSets, TLC

(***************************************************************************)
(* Bounds of the model.                                                    *)
(***************************************************************************)
MaxFields == 2      \* longest field list (config.Inputs) that is enumerated
MaxPolls == 2       \* most evaluations a single poll makes before it times out
MaxPageEvents == 1  \* most page events (loading, URL, document load) per run
MaxLogs == 2        \* most log emissions (console calls, native entries) per run
MaxFaults == 1      \* most failed calls that do not end the run, per run
Budget == 2         \* config.TruncateAfter in the runs of the whole program
MaxBudget == 3      \* largest config.TruncateAfter when only the conversion runs
MaxTextLen == 6     \* longest text that is converted when only the conversion runs

(***************************************************************************)
(* Values.                                                                 *)
(***************************************************************************)
AllFields == <<"email", "password", "token", "code">>
FieldNames == {AllFields[k] : k \in 1..Len(AllFields)}
NoURL == ""                                   \* Go's zero string
ConsoleMethods == {"log", "warn"}             \* methods wrapped by the capture
NativeLevels == {"INFO", "WARN", "SEVERE"}    \* levels of the browser's log
Messages == {"m"}

Min(a, b) == IF a < b THEN a ELSE b

\* The field lists that are enumerated: distinct names, up to MaxFields of them.
FieldLists == {SubSeq(AllFields, 1, n) : n \in 0..Min(MaxFields, Len(AllFields))}

VARIABLES
    config,        \* Config (main.go 58-68), as far as processRequest reads it
    pc,            \* position of the thread of control
    service,       \* geckodriver service: "none" | "running" | "stopped"
    session,       \* remote session (wd):  "none" | "open" | "quit"
    released,      \* history: the releases performed, in order
    deferStack,    \* processRequest's deferred calls, last registered first
    page,          \* the document loaded in the browser and its in-page state
    browserLog,    \* the browser's own log buffer (log.Browser)
    emitted,       \* number of log emissions so far (stamps the entries)
    pageEvents,    \* number of page events so far
    triggered,     \* a form submission or a script has acted on the page
    faults,        \* number of failed calls so far that did not end the run
    isLiveView,    \* processRequest's isLiveView
    idx,           \* handleForm's loop index into config.Inputs (1-based)
    currentURL,    \* processRequest's currentURL, captured before the script
    pollLeft,      \* evaluations the running poll may still make
    navigationOccurred, \* processRequest's navigationOccurred
    content,       \* processRequest's content (wd.PageSource)
    consoleMessages, \* processRequest's consoleMessages (merged log)
    text,          \* processRequest's text (html2text.FromString), a string
    markdown,      \* processRequest's markdown, as it is when composed
    result,        \* what processRequest returns
    stdout,        \* everything written to standard output, in order
    stderr,        \* everything written to standard error, in order
    exitCode,      \* -1 while running, else the process's exit status
    trace          \* history: driver calls, sleeps and polls, in order

vars == <<config, pc, service, session, released, deferStack, page, browserLog,
          emitted, pageEvents, triggered, faults, isLiveView, idx, currentURL,
          pollLeft, navigationOccurred, content, consoleMessages, text, markdown,
          result, stdout, stderr, exitCode, trace>>

resources == <<service, session, released, deferStack>>
world == <<page, browserLog, emitted, pageEvents, triggered>>
locals == <<isLiveView, idx, currentURL, pollLeft, navigationOccurred, content,
            consoleMessages>>
io == <<stdout, stderr, exitCode>>
conversion == <<text, markdown>>

(***************************************************************************)
(* History events.                                                         *)
(***************************************************************************)
Ev(op, arg, ms, ok) == [op |-> op, arg |-> arg, ms |-> ms, ok |-> ok]

Log(e) == trace' = Append(trace, e)

(***************************************************************************)
(* The page: a document and the script globals that live in it.            *)
(*   dynamic    the document has a [data-phx-session] element              *)
(*   connected  the document has a .phx-connected element                  *)
(*   url        what wd.CurrentURL reads                                   *)
(*   ready      document.readyState === 'complete'                         *)
(*   navState   window.__phxNavigationState: "absent" | "idle" | "loading" *)
(*   capture    window.__consoleMessages exists (the methods are wrapped)  *)
(*   captured   window.__consoleMessages                                   *)
(*   doc        identity of the document (counts full loads)               *)
(***************************************************************************)
NoPage ==
    [dynamic |-> FALSE, connected |-> FALSE, url |-> NoURL, ready |-> FALSE,
     navState |-> "absent", capture |-> FALSE, captured |-> <<>>, doc |-> 0]

\* A full-document load: a new document, with none of the script globals.
\* A document load that carries the capture list over to the new document.
FreshDocumentKeeps(p, url, dynamic, ready) ==
    [dynamic |-> dynamic, connected |-> FALSE, url |-> url, ready |-> ready,
     navState |-> "absent", capture |-> p.capture, captured |-> p.captured, doc |-> p.doc + 1]

FreshDocument(p, url, dynamic, ready) ==
    [dynamic |-> dynamic, connected |-> FALSE, url |-> url, ready |-> ready,
     navState |-> "absent", capture |-> FALSE, captured |-> <<>>, doc |-> p.doc + 1]

(***************************************************************************)
(* Results of processRequest: ("", err), (result, nil), or a panic.        *)
(***************************************************************************)
\* A result is kept in parts: the URL of the header, the document (its
\* serialization in raw mode, else the one the text was converted from), the
\* text, and the lines of the console section.
NoOut == [raw |-> FALSE, url |-> NoURL, doc |-> 0, body |-> <<>>, console |-> <<>>]

NoResult == [kind |-> "none", msg |-> "", arg |-> "", out |-> NoOut]

Error(msg, arg) == [kind |-> "error", msg |-> msg, arg |-> arg, out |-> NoOut]

Ok(out) == [kind |-> "ok", msg |-> "", arg |-> "", out |-> out]

Panic(msg) == [kind |-> "panic", msg |-> msg, arg |-> "", out |-> NoOut]

\* ensureProtocol, lines 893-898: "http://" is put in front of a URL that has
\* no protocol.
ensureProtocol(url) == IF url \in {"http://base", "https://base"} THEN url ELSE "http://base"

\* Line 403.
baseURL == ensureProtocol(config.URL)

Configs ==
    [URL : {"base"},
     FormID : {"", "form"},
     Inputs : FieldLists,
     AfterSubmitURL : {"", "after"},
     JSCode : {"", "js"},
     ScreenshotPath : {"", "shot.png"},
     TruncateAfter : {Budget},
     RawFlag : BOOLEAN]

Init ==
    /\ config \in Configs
    /\ pc = "UserHomeDir"
    /\ service = "none"
    /\ session = "none"
    /\ released = <<>>
    /\ deferStack = <<>>
    /\ page = NoPage
    /\ browserLog = <<>>
    /\ emitted = 0
    /\ pageEvents = 0
    /\ triggered = FALSE
    /\ faults = 0
    /\ isLiveView = FALSE
    /\ idx = 1
    /\ currentURL = NoURL
    /\ pollLeft = 0
    /\ navigationOccurred = FALSE
    /\ content = [doc |-> 0, url |-> NoURL]
    /\ consoleMessages = <<>>
    /\ text = <<>>
    /\ markdown = <<>>
    /\ result = NoResult
    /\ stdout = <<>>
    /\ stderr = <<>>
    /\ exitCode = -1
    /\ trace = <<>>

\* A call whose failure does not end the run succeeds or fails; the failures of
\* a run are counted, and bounded by MaxFaults.
Outcomes == IF faults < MaxFaults THEN {TRUE, FALSE} ELSE {TRUE}

Count(ok) == faults' = faults + (IF ok THEN 0 ELSE 1)

\* Defer as a queue: deferred calls would run first-in first-out.
DeferFifo(stack, call) == stack \o <<call>>

\* `defer f()`: the call is pushed; deferred calls run last-in first-out.
Defer(stack, call) == <<call>> \o stack

\* One deferred call: wd.Quit (line 445) or service.Stop (line 420).
RunCall(call, st) ==
    IF call = "wd.Quit"
      THEN [st EXCEPT !.session = "quit", !.released = Append(@, call)]
      ELSE [st EXCEPT !.service = "stopped", !.released = Append(@, call)]

\* The deferred calls of processRequest, run when it returns or panics.
RECURSIVE Unwind(_, _)
Unwind(stack, st) ==
    IF stack = <<>> THEN st ELSE Unwind(Tail(stack), RunCall(Head(stack), st))

Notes(msgs) == [k \in 1..Len(msgs) |-> [kind |-> "note", text |-> msgs[k]]]

\* main, lines 92-98: the result goes to standard output; an error goes to
\* standard error and the exit status is 1.  A panic ends the process with a
\* report on standard error and status 2.
MainStdout(r) == IF r.kind = "ok" THEN <<[kind |-> "result", text |-> "result"]>> ELSE <<>>

MainStderr(r) ==
    CASE r.kind = "ok" -> <<>>
      [] r.kind = "error" -> <<[kind |-> "diagnostic", text |-> r.msg]>>
      [] OTHER -> <<[kind |-> "panic", text |-> r.msg]>>

MainExit(r) == CASE r.kind = "ok" -> 0 [] r.kind = "error" -> 1 [] OTHER -> 2

\* processRequest goes on to its next call, having written `notes`.
Step(next, notes) ==
    /\ pc' = next
    /\ stdout' = stdout \o Notes(notes)
    /\ UNCHANGED <<result, resources, stderr, exitCode>>

\* processRequest returns r (or panics), having written `notes`: its deferred
\* calls run, and main handles the result.
Return(r, notes) ==
    LET st == Unwind(deferStack,
                     [service |-> service, session |-> session, released |-> released])
    IN /\ result' = r
       /\ service' = st.service
       /\ session' = st.session
       /\ released' = st.released
       /\ deferStack' = <<>>
       /\ stdout' = (stdout \o Notes(notes)) \o MainStdout(r)
       /\ stderr' = stderr \o MainStderr(r)
       /\ exitCode' = MainExit(r)
       /\ pc' = "exit"

(***************************************************************************)
(* Where control goes after each optional phase of processRequest.         *)
(***************************************************************************)
\* The after-submit navigation left out.
SkipAfterSubmit == "PageSource"

AfterScreenshot == IF config.AfterSubmitURL # "" THEN "AfterSubmitGet" ELSE "PageSource"

AfterJS == IF config.ScreenshotPath # "" THEN "Screenshot" ELSE AfterScreenshot

AfterForm == IF config.JSCode # "" THEN "JS_CurrentURL" ELSE AfterJS

\* Form handling that starts as soon as a form id is given.
AfterDetectByFormID == IF config.FormID # "" THEN "Form_FindElement" ELSE AfterForm

AfterDetect ==
    IF config.FormID # "" /\ Len(config.Inputs) > 0 THEN "Form_FindElement" ELSE AfterForm

(***************************************************************************)
(* waitForSelector / waitForFunction, lines 694-714, on wd.WaitWithTimeout.*)
(* A poll evaluates its condition until it is true or the timeout is over; *)
(* a poll of `ms` milliseconds makes PollBudget(ms) evaluations at most.   *)
(* PollStep is one evaluation: `holds` is what the condition reads from    *)
(* the page, `fails` a failed evaluation (a driver error, or a reply that  *)
(* is no bool), which the condition turns into "not yet".                  *)
(***************************************************************************)
PollBudget(ms) == Min(MaxPolls, ms \div 1000)

\* An evaluation that fails ends the poll at once, as a timeout does.
PollStepFailEnds(holds, fails, left) ==
    IF holds /\ ~fails THEN "done"
    ELSE IF fails \/ left <= 1 THEN "timeout"
    ELSE "again"

PollStep(holds, fails, left) ==
    IF holds /\ ~fails THEN "done"
    ELSE IF left <= 1 THEN "timeout"
    ELSE "again"

\* A failed evaluation of a condition that does not hold cannot be told from a
\* successful one, so only evaluations of a condition that holds may fail.
EvalOutcomes(holds) == IF holds THEN Outcomes ELSE {TRUE}

\* Poll with a timeout that is returned as an error.
PollFatal(label, ms, holds, doneNext, doneNotes, doneBudget, lateNext, lateNotes) ==
    \E ok \in EvalOutcomes(holds) :
      LET step == PollStep(holds, ~ok, pollLeft) IN
      /\ Count(ok)
      /\ Log(Ev("PollEval", label, ms, step = "done"))
      /\ CASE step = "done" -> Step(doneNext, doneNotes) /\ pollLeft' = doneBudget
           [] step = "timeout" -> Return(Error("wait timed out", label), <<>>) /\ pollLeft' = 0
           [] step = "again" -> Step(pc, <<>>) /\ pollLeft' = pollLeft - 1

\* wd.WaitWithTimeout as the two helpers use it: one evaluation of the poll for
\* `label`, which goes to doneNext when the condition is seen true and to
\* lateNext when the timeout is over.
Poll(label, ms, holds, doneNext, doneNotes, doneBudget, lateNext, lateNotes) ==
    \E ok \in EvalOutcomes(holds) :
      LET step == PollStep(holds, ~ok, pollLeft) IN
      /\ Count(ok)
      /\ Log(Ev("PollEval", label, ms, step = "done"))
      /\ CASE step = "done" -> Step(doneNext, doneNotes) /\ pollLeft' = doneBudget
           [] step = "timeout" -> Step(lateNext, lateNotes) /\ pollLeft' = 0
           [] step = "again" -> Step(pc, <<>>) /\ pollLeft' = pollLeft - 1

(***************************************************************************)
(* processRequest, lines 402-450: acquisition and first navigation.        *)
(***************************************************************************)
UserHomeDir ==
    /\ pc = "UserHomeDir"
    /\ \/ Step("NewGeckoDriverService", <<>>)
       \/ Return(Error("could not get home directory", ""), <<>>)
    /\ UNCHANGED <<config, conversion, world, faults, locals, trace>>

NewGeckoDriverService ==
    /\ pc = "NewGeckoDriverService"
    /\ \/ /\ service' = "running"
          /\ deferStack' = Defer(deferStack, "service.Stop")
          /\ pc' = "NewRemote"
          /\ UNCHANGED <<session, released, result, io>>
       \/ Return(Error("could not start geckodriver service", ""), <<>>)
    /\ UNCHANGED <<config, conversion, world, faults, locals, trace>>

NewRemote ==
    /\ pc = "NewRemote"
    /\ \/ /\ session' = "open"
          /\ deferStack' = Defer(deferStack, "wd.Quit")
          /\ pc' = "Get"
          /\ UNCHANGED <<service, released, result, io>>
       \/ Return(Error("could not create webdriver", ""), <<>>)
    /\ UNCHANGED <<config, conversion, world, faults, locals, trace>>

Get ==
    /\ pc = "Get"
    /\ \/ /\ \E dyn \in BOOLEAN : page' = FreshDocument(page, baseURL, dyn, TRUE)
          /\ Log(Ev("Get", baseURL, 0, TRUE))
          /\ Step("InjectConsole", <<>>)
       \/ /\ Log(Ev("Get", baseURL, 0, FALSE))
          /\ Return(Error("could not navigate to", baseURL), <<>>)
          /\ UNCHANGED page
    /\ UNCHANGED <<config, conversion, browserLog, emitted, pageEvents, triggered, faults, locals>>

(***************************************************************************)
(* Lines 452-478: the console capture script.  It installs the list and    *)
(* the wrappers only when window.__consoleMessages is not there yet.       *)
(***************************************************************************)
InstallCapture(p) == IF p.capture THEN p ELSE [p EXCEPT !.capture = TRUE, !.captured = <<>>]

InjectConsole ==
    /\ pc = "InjectConsole"
    /\ \E ok \in Outcomes :
         /\ Count(ok)
         /\ Log(Ev("ExecuteScript", "capture", 0, ok))
         /\ page' = IF ok THEN InstallCapture(page) ELSE page
         /\ Step("DetectLiveView",
                 IF ok THEN <<>> ELSE <<"Warning: Could not inject console capture">>)
    /\ UNCHANGED <<config, conversion, browserLog, emitted, pageEvents, triggered, locals>>

(***************************************************************************)
(* Lines 480-486: the probe.  A failed probe counts as false; the reply is *)
(* then asserted to be a bool (line 486), which panics on any other reply. *)
(***************************************************************************)
ProbeReplies == {"bool", "null"} \cup (IF faults < MaxFaults THEN {"err"} ELSE {})

\* Line 486 and lines 513-515: what follows the probe.
AfterProbe(live) == IF live THEN "WaitConnected" ELSE AfterDetect

DetectLiveView ==
    /\ pc = "DetectLiveView"
    /\ \E reply \in ProbeReplies :
         /\ Log(Ev("ExecuteScript", "probe", 0, reply # "err"))
         /\ Count(reply # "err")
         /\ CASE reply = "bool" ->
                   /\ isLiveView' = page.dynamic
                   /\ pollLeft' = IF page.dynamic THEN PollBudget(10000) ELSE pollLeft
                   /\ Step(AfterProbe(page.dynamic),
                           IF page.dynamic
                             THEN <<"Detected Phoenix LiveView page, waiting for connection...">>
                             ELSE <<>>)
              [] reply = "err" ->
                   /\ isLiveView' = FALSE
                   /\ Step(AfterProbe(FALSE), <<>>)
                   /\ UNCHANGED pollLeft
              [] reply = "null" ->
                   /\ Return(Panic("interface conversion: interface {} is nil, not bool"),
                             <<>>)
                   /\ UNCHANGED <<isLiveView, pollLeft>>
    /\ UNCHANGED <<config, conversion, world, idx, currentURL, navigationOccurred, content,
                   consoleMessages>>

\* A connection wait whose timeout skips the installation of the listeners.
WaitConnectedSkips ==
    /\ pc = "WaitConnected"
    /\ Poll(".phx-connected", 10000, page.connected,
            "InjectListeners", <<"Phoenix LiveView connected">>, 0,
            AfterDetect, <<"Warning: Could not detect LiveView connection">>)
    /\ UNCHANGED <<config, conversion, world, isLiveView, idx, currentURL,
                   navigationOccurred, content, consoleMessages>>

\* Lines 488-494: wait for .phx-connected, at most 10s; a timeout is a warning.
WaitConnected ==
    /\ pc = "WaitConnected"
    /\ Poll(".phx-connected", 10000, page.connected,
            "InjectListeners", <<"Phoenix LiveView connected">>, 0,
            "InjectListeners", <<"Warning: Could not detect LiveView connection">>)
    /\ UNCHANGED <<config, conversion, world, isLiveView, idx, currentURL, navigationOccurred,
                   content, consoleMessages>>

\* Lines 496-511: the loading listeners, installed once per document.
InstallListeners(p) == IF p.navState = "absent" THEN [p EXCEPT !.navState = "idle"] ELSE p

InjectListeners ==
    /\ pc = "InjectListeners"
    /\ \E ok \in Outcomes :
         /\ Count(ok)
         /\ Log(Ev("ExecuteScript", "listeners", 0, ok))
         /\ page' = IF ok THEN InstallListeners(page) ELSE page
         /\ Step(AfterDetect,
                 IF ok THEN <<>>
                 ELSE <<"Warning: Could not inject Phoenix navigation listeners">>)
    /\ UNCHANGED <<config, conversion, browserLog, emitted, pageEvents, triggered, locals>>

(***************************************************************************)
(* handleForm, lines 716-730: the fill loop.  Each field is located, then  *)
(* cleared, then set; the first failure returns an error naming the field, *)
(* which processRequest wraps and returns (line 517).                      *)
(***************************************************************************)
Field == config.Inputs[idx]

\* Submission that ignores the page mode and always looks for a submit control.
SubmitEntryStatic(live) == "St_FindSubmit"

\* Where handleForm goes once the loop is over (lines 732, 763).
SubmitEntry(live) == IF live THEN "LV_FindForm" ELSE "St_FindSubmit"

\* A loop that does not advance: the same field is attempted again.
SameField(i) == i

\* The loop's next position after field number i was set.
NextField(i) == i + 1

\* What a failed step of the loop does (lines 722, 725, 728 and 517).
FieldFailure(msg, name) == Return(Error(msg, name), <<>>)

Form_FindElement ==
    /\ pc = "Form_FindElement"
    /\ \/ /\ Log(Ev("FindElement", Field, 0, TRUE))
          /\ Step("Form_Clear", <<>>)
       \/ /\ Log(Ev("FindElement", Field, 0, FALSE))
          /\ FieldFailure("error handling form: could not find input", Field)
    /\ UNCHANGED <<config, conversion, world, faults, locals>>

Form_Clear ==
    /\ pc = "Form_Clear"
    /\ \/ /\ Log(Ev("Clear", Field, 0, TRUE))
          /\ Step("Form_SendKeys", <<>>)
       \/ /\ Log(Ev("Clear", Field, 0, FALSE))
          /\ FieldFailure("error handling form: could not clear input", Field)
    /\ UNCHANGED <<config, conversion, world, faults, locals>>

Form_SendKeys ==
    /\ pc = "Form_SendKeys"
    /\ \/ /\ Log(Ev("SendKeys", Field, 0, TRUE))
          /\ idx' = NextField(idx)
          /\ Step(IF NextField(idx) > Len(config.Inputs)
                    THEN SubmitEntry(isLiveView)
                    ELSE "Form_FindElement", <<>>)
       \/ /\ Log(Ev("SendKeys", Field, 0, FALSE))
          /\ FieldFailure("error handling form: could not fill input", Field)
          /\ UNCHANGED idx
    /\ UNCHANGED <<config, conversion, world, faults, isLiveView, currentURL, pollLeft,
                   navigationOccurred, content, consoleMessages>>

(***************************************************************************)
(* handleForm, lines 732-762: submission on a LiveView page.  Enter is     *)
(* sent to the form; then loading === true is polled for 2s and, when it   *)
(* was seen, loading === false for 10s.                                    *)
(***************************************************************************)
LoadingIs(p, flag) == p.navState = (IF flag THEN "loading" ELSE "idle")

LV_FindForm ==
    /\ pc = "LV_FindForm"
    /\ \/ /\ Log(Ev("FindElement", "#form", 0, TRUE))
          /\ Step("LV_SendEnter", <<>>)
       \/ /\ Log(Ev("FindElement", "#form", 0, FALSE))
          /\ Return(Error("error handling form: could not find LiveView form", ""), <<>>)
    /\ UNCHANGED <<config, conversion, world, faults, locals>>

LV_SendEnter ==
    /\ pc = "LV_SendEnter"
    /\ \/ /\ Log(Ev("SendKeys", "#form:Enter", 0, TRUE))
          /\ triggered' = TRUE
          /\ pollLeft' = PollBudget(2000)
          /\ Step("LV_WaitStart", <<"Waiting for Phoenix LiveView navigation...">>)
       \/ /\ Log(Ev("SendKeys", "#form:Enter", 0, FALSE))
          /\ Return(Error("error handling form: could not submit LiveView form", ""), <<>>)
          /\ UNCHANGED <<triggered, pollLeft>>
    /\ UNCHANGED <<config, conversion, page, browserLog, emitted, pageEvents, faults, isLiveView,
                   idx, currentURL, navigationOccurred, content, consoleMessages>>

LV_WaitStart ==
    /\ pc = "LV_WaitStart"
    /\ Poll("loading === true", 2000, LoadingIs(page, TRUE),
            "LV_WaitStop", <<>>, PollBudget(10000),
            AfterForm, <<"Info: No navigation detected (this is normal for in-place updates)",
                         "LiveView form submitted">>)
    /\ UNCHANGED <<config, conversion, world, isLiveView, idx, currentURL, navigationOccurred,
                   content, consoleMessages>>

LV_WaitStop ==
    /\ pc = "LV_WaitStop"
    /\ Poll("loading === false", 10000, LoadingIs(page, FALSE),
            AfterForm, <<"Phoenix LiveView navigation completed",
                         "LiveView form submitted">>, 0,
            AfterForm, <<"Warning: Navigation did not complete within timeout",
                         "LiveView form submitted">>)
    /\ UNCHANGED <<config, conversion, world, isLiveView, idx, currentURL, navigationOccurred,
                   content, consoleMessages>>

(***************************************************************************)
(* handleForm, lines 763-786: submission on any other page.  The submit    *)
(* control is clicked when it is found; otherwise Enter is sent to the     *)
(* form.  handleForm then returns: no wait follows.                        *)
(***************************************************************************)
\* Lines 766-767, 777: what follows the lookup of the submit control.
AfterFindSubmit(found) == IF found THEN "St_Click" ELSE "St_FindForm"

\* Lines 782-785 and 519: where control goes once the form is submitted.
AfterStaticSubmit == AfterForm

St_FindSubmit ==
    /\ pc = "St_FindSubmit"
    /\ \E found \in BOOLEAN :
         /\ Log(Ev("FindElement", "submit", 0, found))
         /\ Step(AfterFindSubmit(found), <<>>)
    /\ UNCHANGED <<config, conversion, world, faults, locals>>

St_Click ==
    /\ pc = "St_Click"
    /\ \/ /\ Log(Ev("Click", "submit", 0, TRUE))
          /\ triggered' = TRUE
          /\ Step(AfterStaticSubmit, <<"Form submitted">>)
       \/ /\ Log(Ev("Click", "submit", 0, FALSE))
          /\ Return(Error("error handling form: could not click submit button", ""), <<>>)
          /\ UNCHANGED triggered
    /\ UNCHANGED <<config, conversion, page, browserLog, emitted, pageEvents, faults, locals>>

St_FindForm ==
    /\ pc = "St_FindForm"
    /\ \/ /\ Log(Ev("FindElement", "#form", 0, TRUE))
          /\ Step("St_SendEnter", <<>>)
       \/ /\ Log(Ev("FindElement", "#form", 0, FALSE))
          /\ Return(Error("error handling form: could not submit form", ""), <<>>)
    /\ UNCHANGED <<config, conversion, world, faults, locals>>

St_SendEnter ==
    /\ pc = "St_SendEnter"
    /\ \/ /\ Log(Ev("SendKeys", "#form:Enter", 0, TRUE))
          /\ triggered' = TRUE
          /\ Step(AfterStaticSubmit, <<"Form submitted">>)
       \/ /\ Log(Ev("SendKeys", "#form:Enter", 0, FALSE))
          /\ Return(Error("error handling form: could not submit form", ""), <<>>)
          /\ UNCHANGED triggered
    /\ UNCHANGED <<config, conversion, page, browserLog, emitted, pageEvents, faults, locals>>

(***************************************************************************)
(* processRequest, lines 521-529: the injected script.  The URL is read    *)
(* first (a failed read leaves the empty string); a script that throws is  *)
(* a warning, and the wait below runs either way.                          *)
(***************************************************************************)
\* wd.CurrentURL with its error dropped: the URL, or "" when the call failed.
ReadURL(p, ok) == IF ok THEN p.url ELSE NoURL

\* A wait chosen by what the page is now, not by what the probe found.
ScriptWaitByPage(live) == IF page.dynamic THEN "JS_LV_Sleep" ELSE "JS_St_Sleep"

\* The wait chosen after the script (line 532).
ScriptWaitEntry(live) == IF live THEN "JS_LV_Sleep" ELSE "JS_St_Sleep"

\* Lines 527-529: what a script that threw leaves on standard output.
ScriptFailure == <<"Warning: JavaScript execution failed">>

\* Lines 534 and 561.
WaitingNote(live) ==
    IF live THEN "Waiting for Phoenix LiveView navigation..."
            ELSE "Waiting for page navigation..."

JS_CurrentURL ==
    /\ pc = "JS_CurrentURL"
    /\ \E ok \in Outcomes :
         /\ Count(ok)
         /\ currentURL' = ReadURL(page, ok)
         /\ Log(Ev("CurrentURL", "before", 0, ok))
    /\ Step("JS_Execute", <<>>)
    /\ UNCHANGED <<config, conversion, world, isLiveView, idx, pollLeft, navigationOccurred,
                   content, consoleMessages>>

\* A script failure that is returned as an error.
JS_ExecuteFatal ==
    /\ pc = "JS_Execute"
    /\ \E ok \in Outcomes :
         /\ Count(ok)
         /\ Log(Ev("ExecuteScript", "js", 0, ok))
         /\ IF ok THEN Step(ScriptWaitEntry(isLiveView), <<WaitingNote(isLiveView)>>)
                  ELSE Return(Error("error executing JavaScript", ""), <<>>)
    /\ triggered' = TRUE
    /\ UNCHANGED <<config, conversion, page, browserLog, emitted, pageEvents, locals>>

JS_Execute ==
    /\ pc = "JS_Execute"
    /\ \E ok \in Outcomes :
         /\ Count(ok)
         /\ Log(Ev("ExecuteScript", "js", 0, ok))
         /\ Step(ScriptWaitEntry(isLiveView),
                 (IF ok THEN <<>> ELSE ScriptFailure) \o <<WaitingNote(isLiveView)>>)
    /\ triggered' = TRUE
    /\ UNCHANGED <<config, conversion, page, browserLog, emitted, pageEvents, locals>>

(***************************************************************************)
(* Lines 532-558: the wait after the script on a LiveView page.            *)
(***************************************************************************)
JS_LV_Sleep ==
    /\ pc = "JS_LV_Sleep"
    /\ Log(Ev("Sleep", "settle", 100, TRUE))
    /\ pollLeft' = PollBudget(1000)
    /\ Step("JS_LV_WaitStart", <<>>)
    /\ UNCHANGED <<config, conversion, world, faults, isLiveView, idx, currentURL,
                   navigationOccurred, content, consoleMessages>>

\* A wait for the start whose timeout goes on to wait for the end.
JS_LV_WaitStartThenStop ==
    /\ pc = "JS_LV_WaitStart"
    /\ Poll("loading === true", 1000, LoadingIs(page, TRUE),
            "JS_LV_WaitStop", <<>>, PollBudget(10000),
            "JS_LV_WaitStop", <<>>)
    /\ UNCHANGED <<config, conversion, world, isLiveView, idx, currentURL, navigationOccurred,
                   content, consoleMessages>>

JS_LV_WaitStart ==
    /\ pc = "JS_LV_WaitStart"
    /\ Poll("loading === true", 1000, LoadingIs(page, TRUE),
            "JS_LV_WaitStop", <<>>, PollBudget(10000),
            "JS_LV_NewURL", <<>>)
    /\ UNCHANGED <<config, conversion, world, isLiveView, idx, currentURL, navigationOccurred,
                   content, consoleMessages>>

JS_LV_NewURL ==
    /\ pc = "JS_LV_NewURL"
    /\ \E ok \in Outcomes :
         LET newURL == ReadURL(page, ok) IN
         /\ Count(ok)
         /\ Log(Ev("CurrentURL", "after", 0, ok))
         /\ IF newURL # currentURL
              THEN Step("JS_LV_Stabilize", <<"URL changed, waiting for page to stabilize...">>)
              ELSE Step(AfterJS, <<"Info: No navigation detected (in-place LiveView update)">>)
    /\ UNCHANGED <<config, conversion, world, locals>>

\* A stabilization delay that never ends.
JS_LV_StabilizeForever ==
    /\ pc = "JS_LV_Stabilize"
    /\ UNCHANGED vars

JS_LV_Stabilize ==
    /\ pc = "JS_LV_Stabilize"
    /\ Log(Ev("Sleep", "stabilize", 500, TRUE))
    /\ Step(AfterJS, <<>>)
    /\ UNCHANGED <<config, conversion, world, faults, locals>>

\* A wait for the end that takes a missing state object for a finished navigation.
JS_LV_WaitStopAbsentIsDone ==
    /\ pc = "JS_LV_WaitStop"
    /\ Poll("loading === false", 10000, page.navState # "loading",
            AfterJS, <<"Phoenix LiveView navigation completed">>, 0,
            AfterJS, <<"Warning: Navigation did not complete within timeout">>)
    /\ UNCHANGED <<config, conversion, world, isLiveView, idx, currentURL, navigationOccurred,
                   content, consoleMessages>>

JS_LV_WaitStop ==
    /\ pc = "JS_LV_WaitStop"
    /\ Poll("loading === false", 10000, LoadingIs(page, FALSE),
            AfterJS, <<"Phoenix LiveView navigation completed">>, 0,
            AfterJS, <<"Warning: Navigation did not complete within timeout">>)
    /\ UNCHANGED <<config, conversion, world, isLiveView, idx, currentURL, navigationOccurred,
                   content, consoleMessages>>

(***************************************************************************)
(* Lines 559-592: the wait after the script on any other page.             *)
(***************************************************************************)
JS_St_Sleep ==
    /\ pc = "JS_St_Sleep"
    /\ Log(Ev("Sleep", "settle", 200, TRUE))
    /\ navigationOccurred' = FALSE
    /\ pollLeft' = PollBudget(5000)
    /\ Step("JS_St_WaitURL", <<>>)
    /\ UNCHANGED <<config, conversion, world, faults, isLiveView, idx, currentURL, content,
                   consoleMessages>>

\* A wait for the URL after which the ready state is polled in any case.
JS_St_WaitURLThenReady ==
    /\ pc = "JS_St_WaitURL"
    /\ Poll("url changed", 5000, page.url # currentURL,
            "JS_St_WaitReady", <<"Navigation detected, waiting for page load...">>,
            PollBudget(5000),
            "JS_St_WaitReady", <<"Info: No navigation detected (page update without URL change)">>)
    /\ navigationOccurred' = (pc' = "JS_St_WaitReady")
    /\ UNCHANGED <<config, conversion, world, isLiveView, idx, currentURL, content,
                   consoleMessages>>

JS_St_WaitURL ==
    /\ pc = "JS_St_WaitURL"
    /\ Poll("url changed", 5000, page.url # currentURL,
            "JS_St_WaitReady", <<"Navigation detected, waiting for page load...">>,
            PollBudget(5000),
            AfterJS, <<"Info: No navigation detected (page update without URL change)">>)
    /\ navigationOccurred' = (pc' = "JS_St_WaitReady")
    /\ UNCHANGED <<config, conversion, world, isLiveView, idx, currentURL, content,
                   consoleMessages>>

JS_St_WaitReady ==
    /\ pc = "JS_St_WaitReady"
    /\ Poll("readyState complete", 5000, page.ready,
            AfterJS, <<"Page load completed">>, 0,
            AfterJS, <<"Warning: Page load wait timed out">>)
    /\ UNCHANGED <<config, conversion, world, isLiveView, idx, currentURL, navigationOccurred,
                   content, consoleMessages>>

(***************************************************************************)
(* Lines 595-620: screenshot, after-submit navigation, page source.        *)
(***************************************************************************)
Screenshot ==
    /\ pc = "Screenshot"
    /\ \/ /\ Log(Ev("Screenshot", "", 0, TRUE))
          /\ Step("WriteFile", <<>>)
       \/ /\ Log(Ev("Screenshot", "", 0, FALSE))
          /\ Return(Error("error taking screenshot", ""), <<>>)
    /\ UNCHANGED <<config, conversion, world, faults, locals>>

WriteFile ==
    /\ pc = "WriteFile"
    /\ \/ Step(AfterScreenshot, <<"Screenshot saved to">>)
       \/ Return(Error("error saving screenshot", ""), <<>>)
    /\ UNCHANGED <<config, conversion, world, faults, locals, trace>>

AfterSubmitGet ==
    /\ pc = "AfterSubmitGet"
    /\ \/ /\ \E dyn \in BOOLEAN :
               page' = FreshDocument(page, config.AfterSubmitURL, dyn, TRUE)
          /\ Log(Ev("Get", config.AfterSubmitURL, 0, TRUE))
          /\ Step("PageSource", <<"Navigating to after-submit URL">>)
       \/ /\ Log(Ev("Get", config.AfterSubmitURL, 0, FALSE))
          /\ Return(Error("could not navigate to after-submit URL", ""),
                    <<"Navigating to after-submit URL">>)
          /\ UNCHANGED page
    /\ UNCHANGED <<config, conversion, browserLog, emitted, pageEvents, triggered, faults, locals>>

PageSource ==
    /\ pc = "PageSource"
    /\ \/ /\ content' = [doc |-> page.doc, url |-> page.url]
          /\ Log(Ev("PageSource", "", 0, TRUE))
          /\ Step("QueryCaptured", <<>>)
       \/ /\ Log(Ev("PageSource", "", 0, FALSE))
          /\ Return(Error("could not get page content", ""), <<>>)
          /\ UNCHANGED content
    /\ UNCHANGED <<config, conversion, world, faults, isLiveView, idx, currentURL, pollLeft,
                   navigationOccurred, consoleMessages>>

(***************************************************************************)
(* Lines 622-659: the two log channels.  An entry of the merged log is the *)
(* string "[LEVEL] message"; `source` and `stamp` are history, recording   *)
(* the channel an entry came from and when it was emitted.                 *)
(***************************************************************************)
ToUpper ==
    [s \in {"log", "warn", "error", "info", "debug", "LOG", "WARN", "ERROR", "INFO",
            "DEBUG", "WARNING", "SEVERE"} |->
       CASE s = "log" -> "LOG"
         [] s = "warn" -> "WARN"
         [] s = "error" -> "ERROR"
         [] s = "info" -> "INFO"
         [] s = "debug" -> "DEBUG"
         [] OTHER -> s]

\* Lines 631-638: upper-case, and 'warn' becomes 'warning'.
CapturedLevel(lvl) == IF ToUpper[lvl] = "WARN" THEN "WARNING" ELSE ToUpper[lvl]

\* Lines 629-645: one entry per element of window.__consoleMessages, in order.
CapturedEntries(list) ==
    [k \in 1..Len(list) |->
       [level |-> CapturedLevel(list[k].level), message |-> list[k].message,
        source |-> "instrumented", stamp |-> list[k].stamp]]

\* A filter that keeps every entry of the browser's log.
NativeKeptAll(e) == TRUE

\* Line 655: the browser's entries that are kept.
NativeKept(e) == ToUpper[e.level] \in {"WARNING", "WARN", "ERROR", "SEVERE"}

\* Lines 652-658: the kept entries of the browser's log, in order.
NativeEntries(buffer) ==
    LET kept == SelectSeq(buffer, NativeKept)
    IN [k \in 1..Len(kept) |->
          [level |-> ToUpper[kept[k].level], message |-> kept[k].message,
           source |-> "native", stamp |-> kept[k].stamp]]

\* New entries put in front of the list.
PrependMessages(messages, entries) == entries \o messages

\* Lines 643 and 656: consoleMessages = append(consoleMessages, ...).
AppendMessages(messages, entries) == messages \o entries

QueryCaptured ==
    /\ pc = "QueryCaptured"
    /\ \E ok \in Outcomes :
         /\ Count(ok)
         /\ Log(Ev("ExecuteScript", "read capture", 0, ok))
         /\ consoleMessages' =
              IF ok THEN AppendMessages(consoleMessages, CapturedEntries(page.captured))
                    ELSE consoleMessages
    /\ Step("QueryNative", <<>>)
    /\ UNCHANGED <<config, conversion, world, isLiveView, idx, currentURL, pollLeft,
                   navigationOccurred, content>>

(***************************************************************************)
(* Strings.  A text is a sequence of one-character strings, so that its    *)
(* length, its prefixes and its lines are what they are in Go.             *)
(***************************************************************************)
NL == "\n"

IsSpace(c) == c \in {" ", NL}

\* strings.HasPrefix and strings.TrimPrefix.
HasPrefix(s, prefix) == Len(s) >= Len(prefix) /\ SubSeq(s, 1, Len(prefix)) = prefix

TrimPrefix(s, prefix) == IF HasPrefix(s, prefix) THEN SubSeq(s, Len(prefix) + 1, Len(s)) ELSE s

\* strings.Contains(s, "\n\n\n").
ContainsBlankRun(s) ==
    \E i \in 1..(Len(s) - 2) : s[i] = NL /\ s[i + 1] = NL /\ s[i + 2] = NL

\* strings.ReplaceAll(s, "\n\n\n", "\n\n"): left to right, without overlap.
RECURSIVE ReplaceBlankRun(_)
ReplaceBlankRun(s) ==
    IF Len(s) < 3 THEN s
    ELSE IF s[1] = NL /\ s[2] = NL /\ s[3] = NL
      THEN <<NL, NL>> \o ReplaceBlankRun(SubSeq(s, 4, Len(s)))
      ELSE <<s[1]>> \o ReplaceBlankRun(Tail(s))

\* One replacement pass instead of the loop.
CollapseOnce(s) == ReplaceBlankRun(s)

\* Lines 908-910: the loop that replaces until no "\n\n\n" is left.
RECURSIVE CollapseBlankLines(_)
CollapseBlankLines(s) ==
    IF ContainsBlankRun(s) THEN CollapseBlankLines(ReplaceBlankRun(s)) ELSE s

\* strings.Split(s, "\n") and strings.Join(lines, "\n").
RECURSIVE Split(_)
Split(s) ==
    IF \A i \in 1..Len(s) : s[i] # NL THEN <<s>>
    ELSE LET i == CHOOSE k \in 1..Len(s) : s[k] = NL /\ \A j \in 1..(k - 1) : s[j] # NL
         IN <<SubSeq(s, 1, i - 1)>> \o Split(SubSeq(s, i + 1, Len(s)))

RECURSIVE Join(_)
Join(lines) ==
    IF Len(lines) = 1 THEN lines[1] ELSE (lines[1] \o <<NL>>) \o Join(Tail(lines))

\* Lines 914-918: one line of the bullet loop.
NormalizeBullet(line) ==
    IF HasPrefix(line, <<"*", " ">>) \/ HasPrefix(line, <<"-", " ">>)
      THEN <<"-", " ">> \o TrimPrefix(TrimPrefix(line, <<"*", " ">>), <<"-", " ">>)
      ELSE line

NormalizeBullets(lines) == [k \in 1..Len(lines) |-> NormalizeBullet(lines[k])]

\* strings.TrimSpace.
RECURSIVE TrimLeft(_)
TrimLeft(s) == IF s # <<>> /\ IsSpace(s[1]) THEN TrimLeft(Tail(s)) ELSE s

RECURSIVE TrimRight(_)
TrimRight(s) ==
    IF s # <<>> /\ IsSpace(s[Len(s)]) THEN TrimRight(SubSeq(s, 1, Len(s) - 1)) ELSE s

TrimSpace(s) == TrimRight(TrimLeft(s))

\* Lines 901-921.  The three header replacements of lines 903-905 replace a
\* string by itself and change nothing.
cleanMarkdown(s) == TrimSpace(Join(NormalizeBullets(Split(CollapseBlankLines(s)))))

\* The decimal digits of a natural number (fmt's %d).
RECURSIVE Digits(_)
Digits(n) ==
    LET d == <<"0", "1", "2", "3", "4", "5", "6", "7", "8", "9">>[(n % 10) + 1]
    IN IF n < 10 THEN <<d>> ELSE Digits(n \div 10) \o <<d>>

\* Line 677: the notice, "\n\n... (output truncated after %d chars, full
\* content was %d chars)".
Notice(after, full) ==
    <<NL, NL, ".", ".", ".", " ", "(", "o", "u", "t", "p", "u", "t", " ", "t", "r", "u",
      "n", "c", "a", "t", "e", "d", " ", "a", "f", "t", "e", "r", " ">>
      \o Digits(after)
      \o <<" ", "c", "h", "a", "r", "s", ",", " ", "f", "u", "l", "l", " ", "c", "o", "n",
           "t", "e", "n", "t", " ", "w", "a", "s", " ">>
      \o Digits(full)
      \o <<" ", "c", "h", "a", "r", "s", ")">>

\* Lines 676-678: md is the cleaned text, t the text it was cleaned from.
Truncate(md, t, after) ==
    IF Len(md) > after THEN SubSeq(md, 1, after) \o Notice(after, Len(t)) ELSE md

\* Lines 661-664: raw mode returns the page source as it is.
\* A raw result that carries the console section.
RawWithConsole(c) ==
    Ok([raw |-> TRUE, url |-> NoURL, doc |-> c.doc, body |-> <<>>,
        console |-> [k \in 1..Len(consoleMessages) |->
                       [kind |-> "entry", level |-> consoleMessages[k].level,
                        message |-> consoleMessages[k].message]]])

RawResult(c) ==
    Ok([raw |-> TRUE, url |-> NoURL, doc |-> c.doc, body |-> <<>>, console |-> <<>>])

QueryNative ==
    /\ pc = "QueryNative"
    /\ \E ok \in Outcomes :
         /\ Count(ok)
         /\ Log(Ev("Log", "browser", 0, ok))
         /\ consoleMessages' =
              IF ok THEN AppendMessages(consoleMessages, NativeEntries(browserLog))
                    ELSE consoleMessages
    /\ IF config.RawFlag
         THEN Return(RawResult(content), <<>>)
         ELSE Step("Convert", <<>>)
    /\ UNCHANGED <<config, conversion, world, isLiveView, idx, currentURL, pollLeft,
                   navigationOccurred, content>>

\* Lines 684-689: the console section, which is there when there are messages:
\* a border, the title, a border, then one line "[LEVEL] message" per message.
SectionLine(kind, level, message) == [kind |-> kind, level |-> level, message |-> message]

MessageLine(e) == SectionLine("entry", e.level, e.message)

\* A console section that is written whether there are messages or not.
SectionAlways(messages) ==
    <<SectionLine("border", "", ""), SectionLine("title", "", "CONSOLE OUTPUT:"),
      SectionLine("border", "", "")>>
      \o [k \in 1..Len(messages) |-> MessageLine(messages[k])]

ConsoleSection(messages) ==
    IF Len(messages) > 0
      THEN <<SectionLine("border", "", ""), SectionLine("title", "", "CONSOLE OUTPUT:"),
             SectionLine("border", "", "")>>
             \o [k \in 1..Len(messages) |-> MessageLine(messages[k])]
      ELSE <<>>

\* Lines 680-691: the header with baseURL, the text and the console section.
Compose(url, c, md, messages) ==
    Ok([raw |-> FALSE, url |-> url, doc |-> c.doc, body |-> md,
        console |-> ConsoleSection(messages)])

\* What html2text.FromString returns in the runs of the whole program: a text
\* that fits the budget, and one that does not and that cleaning shortens.
SampleTexts == {<<"a">>, <<"*", " ", "a", "a", " ">>}

\* Lines 666-691: conversion to text (which can fail), cleaning, truncation
\* and composition, for a conversion that returns one of `texts`.
ConvertFrom(texts) ==
    /\ pc = "Convert"
    /\ \/ \E t \in texts :
            LET md == Truncate(cleanMarkdown(t), t, config.TruncateAfter) IN
            /\ text' = t
            /\ markdown' = md
            /\ Return(Compose(baseURL, content, md, consoleMessages), <<>>)
       \/ /\ Return(Error("could not convert HTML to text", ""), <<>>)
          /\ UNCHANGED conversion
    /\ UNCHANGED <<config, world, faults, locals, trace>>

Convert == ConvertFrom(SampleTexts)

(***************************************************************************)
(* The page's own behaviour.  The program sees the page only through the   *)
(* calls that read it, so a page event is taken when the program is at a   *)
(* call that reads what the event changes: an event that happens earlier   *)
(* is seen by the same call in the same way.                               *)
(***************************************************************************)
ReadsConnected == {"WaitConnected"}

ReadsLoading == {"LV_WaitStart", "LV_WaitStop", "JS_LV_WaitStart", "JS_LV_WaitStop"}

ReadsURL == {"JS_CurrentURL", "JS_LV_NewURL", "JS_St_WaitURL", "PageSource"}

ReadsReady == {"JS_St_WaitReady"}

ReadsCapture == {"QueryCaptured"}

ReadsDocument == ReadsLoading \cup ReadsURL \cup ReadsReady \cup ReadsCapture

\* A console call is seen only by the capture query, and is undone only by a
\* document load: it is taken just before one of those.
ReadsConsole == {"AfterSubmitGet", "PageSource", "QueryCaptured"}

\* An entry of the browser's log is seen only by the log query; it is taken
\* before the capture query (so that it is older than a console call) or
\* before the log query.
ReadsNative == {"QueryCaptured", "QueryNative"}

\* The LiveView socket connects: .phx-connected appears.
EnvConnect ==
    /\ pc \in ReadsConnected
    /\ page.dynamic /\ ~page.connected
    /\ page' = [page EXCEPT !.connected = TRUE]
    /\ UNCHANGED <<config, conversion, pc, resources, browserLog, emitted, pageEvents, triggered,
                   faults, locals, io, result, trace>>

\* phx:page-loading-start is dispatched; the listener (if installed) sets the flag.
EnvLoadingStart ==
    /\ pc \in ReadsLoading /\ triggered /\ pageEvents < MaxPageEvents
    /\ page.dynamic /\ page.navState = "idle"
    /\ page' = [page EXCEPT !.navState = "loading"]
    /\ pageEvents' = pageEvents + 1
    /\ UNCHANGED <<config, conversion, pc, resources, browserLog, emitted, triggered, faults,
                   locals, io, result, trace>>

\* phx:page-loading-stop is dispatched; the listener clears the flag.
EnvLoadingStop ==
    /\ pc \in ReadsLoading
    /\ page.navState = "loading"
    /\ page' = [page EXCEPT !.navState = "idle"]
    /\ UNCHANGED <<config, conversion, pc, resources, browserLog, emitted, pageEvents, triggered,
                   faults, locals, io, result, trace>>

\* The URL changes without a document load (history.pushState, live patch).
EnvUrlChange ==
    /\ pc \in ReadsURL /\ triggered /\ pageEvents < MaxPageEvents
    /\ page.url # "moved"
    /\ page' = [page EXCEPT !.url = "moved"]
    /\ pageEvents' = pageEvents + 1
    /\ UNCHANGED <<config, conversion, pc, resources, browserLog, emitted, triggered, faults,
                   locals, io, result, trace>>

\* A full-document load (form post, location change): a new document.
EnvFullLoad ==
    /\ pc \in ReadsDocument /\ triggered /\ pageEvents < MaxPageEvents
    /\ \E url \in {page.url, "moved"}, dyn \in BOOLEAN :
         page' = FreshDocument(page, url, dyn, FALSE)
    /\ pageEvents' = pageEvents + 1
    /\ UNCHANGED <<config, conversion, pc, resources, browserLog, emitted, triggered, faults,
                   locals, io, result, trace>>

\* The navigation that phx:page-loading-start announced ends in a full-document
\* load: the new document has no __phxNavigationState and hears no stop event.
EnvLoadingEndsInFullLoad ==
    /\ pc \in {"LV_WaitStop", "JS_LV_WaitStop"}
    /\ page.navState = "loading"
    /\ \E dyn \in BOOLEAN : page' = FreshDocument(page, "moved", dyn, FALSE)
    /\ UNCHANGED <<config, conversion, pc, resources, browserLog, emitted, pageEvents, triggered,
                   faults, locals, io, result, trace>>

\* The document finishes loading.
EnvReady ==
    /\ pc \in ReadsReady
    /\ ~page.ready
    /\ page' = [page EXCEPT !.ready = TRUE]
    /\ UNCHANGED <<config, conversion, pc, resources, browserLog, emitted, pageEvents, triggered,
                   faults, locals, io, result, trace>>

\* A script of the page calls console.<method>(message): lines 458-472 record
\* the call when the wrappers are installed in this document.
ConsoleCall(p, method, message, stamp) ==
    IF p.capture
      THEN [p EXCEPT !.captured =
              Append(@, [level |-> method, message |-> message, stamp |-> stamp])]
      ELSE p

EnvConsole ==
    /\ pc \in ReadsConsole /\ emitted < MaxLogs
    /\ \E method \in ConsoleMethods, message \in Messages :
         page' = ConsoleCall(page, method, message, emitted + 1)
    /\ emitted' = emitted + 1
    /\ UNCHANGED <<config, conversion, pc, resources, browserLog, pageEvents, triggered, faults,
                   locals, io, result, trace>>

\* The browser adds an entry to its own log (script error, network error, ...).
EnvNative ==
    /\ pc \in ReadsNative /\ emitted < MaxLogs
    /\ \E level \in NativeLevels, message \in Messages :
         browserLog' = Append(browserLog,
                              [level |-> level, message |-> message, stamp |-> emitted + 1])
    /\ emitted' = emitted + 1
    /\ UNCHANGED <<config, conversion, pc, resources, page, pageEvents, triggered, faults, locals,
                   io, result, trace>>

Program ==
    \/ UserHomeDir \/ NewGeckoDriverService \/ NewRemote \/ Get
    \/ InjectConsole \/ DetectLiveView \/ WaitConnected \/ InjectListeners
    \/ Form_FindElement \/ Form_Clear \/ Form_SendKeys
    \/ LV_FindForm \/ LV_SendEnter \/ LV_WaitStart \/ LV_WaitStop
    \/ St_FindSubmit \/ St_Click \/ St_FindForm \/ St_SendEnter
    \/ JS_CurrentURL \/ JS_Execute
    \/ JS_LV_Sleep \/ JS_LV_WaitStart \/ JS_LV_NewURL \/ JS_LV_Stabilize \/ JS_LV_WaitStop
    \/ JS_St_Sleep \/ JS_St_WaitURL \/ JS_St_WaitReady
    \/ Screenshot \/ WriteFile \/ AfterSubmitGet \/ PageSource
    \/ QueryCaptured \/ QueryNative \/ Convert

PageEvents ==
    \/ EnvConnect \/ EnvLoadingStart \/ EnvLoadingStop \/ EnvUrlChange \/ EnvFullLoad
    \/ EnvLoadingEndsInFullLoad \/ EnvReady

Next == Program \/ PageEvents

Spec == Init /\ [][Next]_vars

(***************************************************************************)
(* The same program on a page that also writes to the two log channels,    *)
(* run with a form, a script and a screenshot requested.                   *)
(***************************************************************************)
LogEvents == EnvConsole \/ EnvNative

InitLogs ==
    /\ Init
    /\ config.FormID = "form" /\ Len(config.Inputs) = 1
    /\ config.JSCode = "js" /\ config.ScreenshotPath = "shot.png"

NextLogs == Program \/ PageEvents \/ LogEvents

SpecLogs == InitLogs /\ [][NextLogs]_vars

(***************************************************************************)
(* The conversion on its own: processRequest is about to convert the page  *)
(* source of a plain run (no form, no script, no screenshot, no log        *)
(* entries), html2text returns any text of MaxTextLen characters at most   *)
(* over Alphabet, and the budget is any number from 1 to MaxBudget         *)
(* (parseArgs, line 807, keeps a budget only when it is positive).         *)
(***************************************************************************)
Alphabet == {"a", " ", NL, "*", "-"}

Texts == UNION {[1..n -> Alphabet] : n \in 0..MaxTextLen}

PlainConfig(after) ==
    [URL |-> "base", FormID |-> "", Inputs |-> <<>>, AfterSubmitURL |-> "",
     JSCode |-> "", ScreenshotPath |-> "", TruncateAfter |-> after, RawFlag |-> FALSE]

\* The plain run, up to the conversion.
PlainTrace ==
    <<Ev("Get", "http://base", 0, TRUE), Ev("ExecuteScript", "capture", 0, TRUE),
      Ev("ExecuteScript", "probe", 0, TRUE), Ev("PageSource", "", 0, TRUE),
      Ev("ExecuteScript", "read capture", 0, TRUE), Ev("Log", "browser", 0, TRUE)>>

AtConvert ==
    /\ pc = "Convert"
    /\ service = "running" /\ session = "open" /\ released = <<>>
    /\ deferStack = <<"wd.Quit", "service.Stop">>
    /\ page = [dynamic |-> FALSE, connected |-> FALSE, url |-> "http://base",
               ready |-> TRUE, navState |-> "absent", capture |-> TRUE,
               captured |-> <<>>, doc |-> 1]
    /\ browserLog = <<>> /\ emitted = 0 /\ pageEvents = 0 /\ triggered = FALSE
    /\ faults = 0 /\ isLiveView = FALSE /\ idx = 1 /\ currentURL = NoURL
    /\ pollLeft = 0 /\ navigationOccurred = FALSE
    /\ content = [doc |-> 1, url |-> "http://base"]
    /\ consoleMessages = <<>> /\ text = <<>> /\ markdown = <<>>
    /\ result = NoResult /\ stdout = <<>> /\ stderr = <<>> /\ exitCode = -1
    /\ trace = PlainTrace

InitText ==
    /\ config \in {PlainConfig(after) : after \in 1..MaxBudget}
    /\ AtConvert

ConvertText == ConvertFrom(Texts)

NextText == ConvertText

SpecText == InitText /\ [][NextText]_vars

(***************************************************************************)
(* Properties.  They are stated over the history of driver calls (trace),  *)
(* the two output streams and the result.                                  *)
(***************************************************************************)
Is(e, op, arg) == e.op = op /\ e.arg = arg

HasNote(note) == \E k \in 1..Len(stdout) : stdout[k] = [kind |-> "note", text |-> note]

HasForm == config.FormID # "" /\ Len(config.Inputs) > 0

\* Event i is a submission action: a click, or Enter sent to the form.
Submission(i) == Is(trace[i], "Click", "submit") \/ Is(trace[i], "SendKeys", "#form:Enter")

\* Event j is a screenshot, the after-submit navigation or the page source.
Retrieval(j) ==
    \/ trace[j].op \in {"Screenshot", "PageSource"}
    \/ trace[j].op = "Get" /\ j > 1

\* The static navigation wait began between events i and j.
StaticWaitBetween(i, j) ==
    \E k \in (i + 1)..(j - 1), m \in (i + 1)..(j - 1) :
      /\ k < m
      /\ trace[k] = Ev("Sleep", "settle", 200, TRUE)
      /\ trace[m].op = "PollEval" /\ trace[m].arg = "url changed"

\* C1 (as the spec states it): after a successful submission on a page that is
\* not LiveView, no screenshot, after-submit navigation or page source comes
\* before the static navigation wait (settle delay, then the poll for a URL
\* change) has run.  handleForm runs no wait on this branch, so this fails.
C1_StaticSubmitThenWait ==
    \A i \in 1..Len(trace), j \in 1..Len(trace) :
      (i < j /\ ~isLiveView /\ Submission(i) /\ trace[i].ok /\ Retrieval(j))
        => StaticWaitBetween(i, j)

\* C2 (as the spec states it): after a successful submission on a LiveView
\* page the wait is the one that follows a script: the settle delay comes
\* first, and loading === true is polled for one second at most.  handleForm
\* polls for two seconds without a settle delay, so this fails.
C2_DynamicFormWaitIsProtocol ==
    \A i \in 1..Len(trace) :
      /\ (isLiveView /\ Submission(i) /\ trace[i].ok /\ i < Len(trace))
           => trace[i + 1] = Ev("Sleep", "settle", 100, TRUE)
      /\ (trace[i].op = "PollEval" /\ trace[i].arg = "loading === true")
           => trace[i].ms <= 1000

\* C3 (as the spec states it): a successful run writes the composed output and
\* nothing else; a fatal run writes the diagnostic and nothing else, and exits
\* non-zero.  The notes and warnings go to standard output, so this fails.
C3_OnlyOutputEmitted ==
    /\ exitCode = 0 => stdout = MainStdout(result) /\ stderr = <<>>
    /\ result.kind = "error" =>
         stdout = <<>> /\ stderr = MainStderr(result) /\ exitCode = 1

\* What must have been released, given what was acquired.
Acquired ==
    (IF session # "none" THEN <<"wd.Quit">> ELSE <<>>)
      \o (IF service # "none" THEN <<"service.Stop">> ELSE <<>>)

\* C4: when processRequest has ended (returned a result, returned an error or
\* panicked), the service is stopped if it was started and the session is quit
\* if it was created, the session first, each exactly once; nothing is released
\* while processRequest runs.
C4_ReleasedOnEveryPath ==
    /\ pc # "exit" => released = <<>>
    /\ pc = "exit" =>
         /\ result.kind \in {"ok", "error", "panic"}
         /\ service \in {"none", "stopped"}
         /\ session \in {"none", "quit"}
         /\ released = Acquired
         /\ deferStack = <<>>

C4_PanicReleasesBoth ==
    /\ pc = "exit" /\ result.kind = "panic"
    /\ released = <<"wd.Quit", "service.Stop">>

\* Event i is a failed primary action: the first navigation, a step on a field,
\* the lookup of the form, or the submission itself.
PrimaryFailure(i) ==
    /\ ~trace[i].ok
    /\ \/ trace[i].op = "Get" /\ i = 1
       \/ trace[i].op \in {"FindElement", "Clear", "SendKeys"} /\ trace[i].arg \in FieldNames
       \/ Is(trace[i], "FindElement", "#form")
       \/ Submission(i)

\* C5: an error is never returned by a poll that timed out (an error return
\* never follows an evaluation of a poll), and a failed primary action is the
\* last call of the run, which returns an error and writes no output.
C5_TimeoutsNotFatalPrimaryFatal ==
    /\ (result.kind = "error" /\ trace # <<>>) => trace[Len(trace)].op # "PollEval"
    /\ \A i \in 1..Len(trace) :
         PrimaryFailure(i) =>
           /\ i = Len(trace)
           /\ pc = "exit" /\ result.kind = "error" /\ exitCode = 1
           /\ result.out = NoOut
           /\ MainStdout(result) = <<>>

C5_TwoTimeoutsThenOutput ==
    /\ exitCode = 0 /\ result.kind = "ok"
    /\ HasNote("Warning: Could not detect LiveView connection")
    /\ HasNote("Warning: Navigation did not complete within timeout")

IsFieldEvent(e) == e.arg \in FieldNames

FieldEvents == SelectSeq(trace, IsFieldEvent)

FieldOps == <<"FindElement", "Clear", "SendKeys">>

\* C6: the calls on fields are, in order, locate, clear and set of the first
\* field, then of the second, ...; a failed one is the last call of the run,
\* which returns an error naming that field with no output; and a submission,
\* a script or a page source only follows when every field was set.
C6_FieldsInOrderFirstFailureAborts ==
    LET fe == FieldEvents
        n == Len(config.Inputs)
    IN /\ Len(fe) <= 3 * n
       /\ Len(fe) > 0 => HasForm
       /\ \A k \in 1..Len(fe) :
            /\ fe[k].op = FieldOps[((k - 1) % 3) + 1]
            /\ fe[k].arg = config.Inputs[((k - 1) \div 3) + 1]
            /\ k < Len(fe) => fe[k].ok
            /\ ~fe[k].ok =>
                 /\ trace[Len(trace)] = fe[k]
                 /\ pc = "exit" /\ result = Error(result.msg, fe[k].arg)
                 /\ MainStdout(result) = <<>>
       /\ HasForm =>
            \A i \in 1..Len(trace) :
              (Submission(i) \/ Is(trace[i], "ExecuteScript", "js") \/ trace[i].op = "PageSource")
                => (Len(fe) = 3 * n /\ fe[3 * n].ok)

C6_SecondFieldFails ==
    /\ Len(config.Inputs) = 2
    /\ Len(FieldEvents) > 3
    /\ ~FieldEvents[Len(FieldEvents)].ok
    /\ result.arg = config.Inputs[2]

Submissions == {i \in 1..Len(trace) : Submission(i)}

\* C7: on a LiveView page the submission is Enter sent to the form, and the
\* submit control is neither looked up nor clicked; on any other page it is a
\* click when the lookup of the submit control succeeded and Enter sent to the
\* form when it failed.  A run submits once at most, and a run with a form
\* that returns a result has submitted exactly once.
C7_SubmissionByModeAndControl ==
    /\ Cardinality(Submissions) <= 1
    /\ ~HasForm => Submissions = {}
    /\ (HasForm /\ result.kind = "ok") =>
         \E i \in Submissions : trace[i].ok
    /\ \A i \in 1..Len(trace) :
         /\ (isLiveView /\ HasForm) => ~Is(trace[i], "Click", "submit")
         /\ (isLiveView /\ HasForm) => ~Is(trace[i], "FindElement", "submit")
         /\ Is(trace[i], "Click", "submit") =>
              ~isLiveView /\ trace[i - 1] = Ev("FindElement", "submit", 0, TRUE)
         /\ (~isLiveView /\ Is(trace[i], "SendKeys", "#form:Enter")) =>
              /\ trace[i - 1] = Ev("FindElement", "#form", 0, TRUE)
              /\ trace[i - 2] = Ev("FindElement", "submit", 0, FALSE)
         /\ (isLiveView /\ Is(trace[i], "SendKeys", "#form:Enter")) =>
              trace[i - 1] = Ev("FindElement", "#form", 0, TRUE)

C7_DynamicSubmitsWithEnter ==
    /\ isLiveView /\ result.kind = "ok"
    /\ \E i \in Submissions : trace[i] = Ev("SendKeys", "#form:Enter", 0, TRUE)

ScriptWaitPcs ==
    {"JS_LV_Sleep", "JS_LV_WaitStart", "JS_LV_NewURL", "JS_LV_Stabilize", "JS_LV_WaitStop",
     "JS_St_Sleep", "JS_St_WaitURL", "JS_St_WaitReady"}

ScriptFailed(i) == trace[i] = Ev("ExecuteScript", "js", 0, FALSE)

C8_State ==
    \A i \in 1..Len(trace) :
      ScriptFailed(i) =>
        /\ HasNote("Warning: JavaScript execution failed")
        /\ i = Len(trace) => pc = ScriptWaitEntry(isLiveView)
        /\ i < Len(trace) =>
             trace[i + 1] = Ev("Sleep", "settle", IF isLiveView THEN 100 ELSE 200, TRUE)
        /\ pc = "exit" =>
             \E j \in (i + 1)..Len(trace) : trace[j].op \in {"Screenshot", "Get", "PageSource"}
        /\ result.kind = "ok" =>
             \E j \in (i + 1)..Len(trace) : trace[j] = Ev("PageSource", "", 0, TRUE)

C8_Step == (pc \in ScriptWaitPcs \cup {"JS_Execute"}) => currentURL' = currentURL

\* C8: a script that fails leaves a warning and does not end the run: the wait
\* for the page's mode starts next, the URL it compares with stays the one read
\* before the script, and the run ends only at a later step (screenshot,
\* after-submit navigation, page source or conversion); a result is returned
\* only with the page source read after the script.
C8_ScriptFailureContinues == []C8_State /\ [][C8_Step]_vars

C8_FailedScriptThenOutput ==
    /\ \E i \in 1..Len(trace) : ScriptFailed(i)
    /\ result.kind = "ok" /\ exitCode = 0
    /\ \E j \in 1..Len(trace) : trace[j].op = "PollEval"

CaptureQueries == {i \in 1..Len(trace) : Is(trace[i], "ExecuteScript", "read capture")}

NativeQueries == {i \in 1..Len(trace) : Is(trace[i], "Log", "browser")}

\* C9: each channel is queried once at most; a query comes after the page
\* source was read and after the after-submit navigation when one was asked
\* for; the captured list is queried first, and nothing but the native query
\* follows it; a run that read the page source and has ended has queried both,
\* and a run that did not read it has queried neither.
C9_QueriesOnceAtTheEnd ==
    /\ Cardinality(CaptureQueries) <= 1
    /\ Cardinality(NativeQueries) <= 1
    /\ \A i \in CaptureQueries \cup NativeQueries :
         /\ \E j \in 1..(i - 1) : trace[j] = Ev("PageSource", "", 0, TRUE)
         /\ config.AfterSubmitURL # "" =>
              \E j \in 2..(i - 1) : trace[j] = Ev("Get", config.AfterSubmitURL, 0, TRUE)
         /\ \A j \in (i + 1)..Len(trace) : j \in NativeQueries
    /\ \A i \in NativeQueries : i - 1 \in CaptureQueries
    /\ (pc = "exit" /\ \E j \in 1..Len(trace) : trace[j] = Ev("PageSource", "", 0, TRUE))
         => (Cardinality(CaptureQueries) = 1 /\ Cardinality(NativeQueries) = 1)
    /\ (\A j \in 1..Len(trace) : trace[j] # Ev("PageSource", "", 0, TRUE))
         => (CaptureQueries = {} /\ NativeQueries = {})

C9_BothQueriedAfterNavigation ==
    /\ result.kind = "ok" /\ config.AfterSubmitURL # ""
    /\ Cardinality(CaptureQueries) = 1 /\ Cardinality(NativeQueries) = 1
    /\ \E i \in 1..Len(trace) : Is(trace[i], "ExecuteScript", "js")

\* The run has made both queries, and both succeeded.
BothRead ==
    /\ \E i \in CaptureQueries : trace[i].ok
    /\ \E i \in NativeQueries : trace[i].ok

\* C10: in the merged log no native entry comes before an instrumented one,
\* and the entries of one channel are in the order they were emitted in; once
\* both queries succeeded the log holds every captured entry and every kept
\* native entry, each once, also when both channels carry the same message.
C10_MergedLogOrder ==
    /\ \A i \in 1..Len(consoleMessages), j \in 1..Len(consoleMessages) :
         i < j =>
           /\ consoleMessages[i].source = "native" => consoleMessages[j].source = "native"
           /\ consoleMessages[i].source = consoleMessages[j].source
                => consoleMessages[i].stamp < consoleMessages[j].stamp
    /\ BothRead =>
         /\ Len(consoleMessages)
              = Len(page.captured) + Len(SelectSeq(browserLog, NativeKept))
         /\ \A k \in 1..Len(page.captured) :
              /\ consoleMessages[k].source = "instrumented"
              /\ consoleMessages[k].message = page.captured[k].message
              /\ consoleMessages[k].stamp = page.captured[k].stamp

C10_NativeEmittedFirstComesLast ==
    /\ BothRead /\ Len(consoleMessages) = 2
    /\ consoleMessages[1].source = "instrumented"
    /\ consoleMessages[2].source = "native"
    /\ consoleMessages[2].stamp < consoleMessages[1].stamp
    /\ consoleMessages[1].message = consoleMessages[2].message

OutputLevels == {"LOG", "INFO", "DEBUG", "WARNING", "ERROR", "SEVERE"}

\* C11 (as the spec states it): every entry of the merged log, from either
\* channel, has an upper-case level among LOG, INFO, DEBUG, WARNING, ERROR and
\* SEVERE, so WARN never appears.  Only the captured entries have WARN expanded
\* (lines 634-636); a native entry of level WARN is kept as it is, so this fails.
C11_LevelsNormalized ==
    \A k \in 1..Len(consoleMessages) : consoleMessages[k].level \in OutputLevels

\* The merged log has the native entry e / the captured entry e.
NativeAppears(e) ==
    \E k \in 1..Len(consoleMessages) :
      /\ consoleMessages[k].source = "native"
      /\ consoleMessages[k].stamp = e.stamp /\ consoleMessages[k].message = e.message

CapturedAppears(e) ==
    \E k \in 1..Len(consoleMessages) :
      /\ consoleMessages[k].source = "instrumented"
      /\ consoleMessages[k].stamp = e.stamp /\ consoleMessages[k].message = e.message

NativeRead == \E i \in NativeQueries : trace[i].ok

CapturedRead == \E i \in CaptureQueries : trace[i].ok

C13_RawIsDocument ==
    (result.kind = "ok" /\ config.RawFlag) =>
      /\ result.out.raw /\ result.out.doc = content.doc
      /\ result.out.url = NoURL
      /\ result.out.body = <<>> /\ text = <<>> /\ markdown = <<>>
      /\ result.out.console = <<>>
      /\ exitCode = 0 /\ stdout[Len(stdout)].kind = "result"

C13_RawWithLogEntries ==
    /\ result.kind = "ok" /\ config.RawFlag
    /\ Len(consoleMessages) = 2

\* A text was converted and composed.
Converted == result.kind = "ok" /\ ~config.RawFlag

\* C14 (as the spec states it): with n the cleaned text, L its length and B the
\* budget, the composed text is the first B characters of n and then the notice
\* stating B and L when L > B, of length B plus the notice's, and n itself when
\* L <= B.  The notice of line 677 states the length of the text before it was
\* cleaned, so this fails when cleaning changed the length.
C14_TruncationAsStated ==
    Converted =>
      LET n == cleanMarkdown(text)
          L == Len(n)
          B == config.TruncateAfter
      IN IF L > B
           THEN /\ result.out.body = SubSeq(n, 1, B) \o Notice(B, L)
                /\ Len(result.out.body) = B + Len(Notice(B, L))
           ELSE result.out.body = n

\* C15 (as the spec states it): cleaning a cleaned text changes nothing,
\* cleanMarkdown(cleanMarkdown(t)) = cleanMarkdown(t), for every text t that
\* is converted.  A first line of spaces and then a bullet marker is not
\* normalized at the first pass (the marker is not at the line's start) but is
\* at the second (the spaces were trimmed), so this fails.
C15_CleanIdempotent ==
    Converted => cleanMarkdown(cleanMarkdown(text)) = cleanMarkdown(text)

\* The number of empty lines that `lines` starts with.
BlankRun(lines) ==
    CHOOSE r \in 0..Len(lines) :
      /\ \A j \in 1..r : lines[j] = <<>>
      /\ r = Len(lines) \/ lines[r + 1] # <<>>

\* `lines` with every run of k or more empty lines made one empty line, and
\* the shorter runs left as they are.
RECURSIVE Squeeze(_, _)
Squeeze(lines, k) ==
    IF lines = <<>> THEN <<>>
    ELSE IF lines[1] # <<>> THEN <<lines[1]>> \o Squeeze(Tail(lines), k)
    ELSE LET r == BlankRun(lines)
         IN (IF r >= k THEN << <<>> >> ELSE SubSeq(lines, 1, r))
              \o Squeeze(SubSeq(lines, r + 1, Len(lines)), k)

\* A line that starts with "* " or "- ", with the single marker "- ".
Marked(line) ==
    IF HasPrefix(line, <<"*", " ">>) \/ HasPrefix(line, <<"-", " ">>)
      THEN <<"-", " ">>
             \o (IF HasPrefix(line, <<"*", " ", "-", " ">>)
                   THEN SubSeq(line, 5, Len(line))
                   ELSE SubSeq(line, 3, Len(line)))
      ELSE line

\* The text t, line by line: runs of k or more empty lines made one, markers
\* made "- ", and then the whitespace at both ends removed.
LineByLine(t, k) ==
    LET lines == Squeeze(Split(t), k)
    IN TrimSpace(Join([j \in 1..Len(lines) |-> Marked(lines[j])]))

NoOuterSpace(s) == s = <<>> \/ (~IsSpace(s[1]) /\ ~IsSpace(s[Len(s)]))

\* C16 as the spec states it: runs of three or more blank lines become one
\* blank line and runs of one or two are left as they are.
C16_CleanAsStated ==
    Converted =>
      /\ cleanMarkdown(text) = LineByLine(text, 3)
      /\ NoOuterSpace(cleanMarkdown(text))

\* C16, amended: runs of two or more blank (empty) lines become one blank line
\* and a single blank line is left as it is, so the cleaned text never has two
\* blank lines in a row; a line that starts with "* " or "- " gets the marker
\* "- "; and the cleaned text has no whitespace at either end.
C16_Clean ==
    Converted =>
      /\ cleanMarkdown(text) = LineByLine(text, 2)
      /\ ~ContainsBlankRun(cleanMarkdown(text))
      /\ NoOuterSpace(cleanMarkdown(text))

C16_ThreeBlankLinesMadeOne ==
    /\ Converted
    /\ text = <<"a", NL, NL, NL, NL, "a">>
    /\ cleanMarkdown(text) = <<"a", NL, NL, "a">>

\* C17: a composed result has the console section exactly when the merged log
\* has an entry; the section is then its three heading lines and one line
\* "[LEVEL] message" per entry, in the order of the merged log, each once; the
\* header carries the URL the run was started with (with its protocol), and
\* the text is the converted text, also when another page was loaded since.
C17_ConsoleSectionIffEntries ==
    Converted =>
      LET section == result.out.console
          n == Len(consoleMessages)
      IN /\ result.out.url = "http://base" /\ ~result.out.raw
         /\ result.out.body = markdown
         /\ (section # <<>>) <=> (n > 0)
         /\ n > 0 =>
              /\ Len(section) = 3 + n
              /\ section[1].kind = "border" /\ section[2].kind = "title"
              /\ section[3].kind = "border"
              /\ \A k \in 1..n :
                   section[3 + k] = [kind |-> "entry", level |-> consoleMessages[k].level,
                                     message |-> consoleMessages[k].message]

C17_SectionWithTwoEntries ==
    /\ Converted
    /\ Len(consoleMessages) = 2 /\ Len(result.out.console) = 5
    /\ consoleMessages[1].source = "instrumented" /\ consoleMessages[2].source = "native"

ConnectionPolls == {i \in 1..Len(trace) : Is(trace[i], "PollEval", ".phx-connected")}

\* Event i acts on the form, runs the script or installs the listeners.
Interaction(i) ==
    \/ trace[i].op \in {"FindElement", "Clear", "SendKeys", "Click"}
    \/ Is(trace[i], "ExecuteScript", "js")
    \/ Is(trace[i], "ExecuteScript", "listeners")

ConnectionWarning == HasNote("Warning: Could not detect LiveView connection")

\* C18: on a LiveView page the poll for .phx-connected comes right after the
\* probe and before any call on the form, the script and the listeners; when
\* it ends, by success or by timeout, the next call installs the listeners; a
\* timeout leaves the warning (and not the note of success); and the form and
\* the script wait that follow are those of a LiveView page.
C18_ConnectionWaitFirst ==
    isLiveView =>
      /\ ConnectionPolls # {}
           => \A i \in ConnectionPolls : Is(trace[i - 1], "ExecuteScript", "probe")
                                         \/ i - 1 \in ConnectionPolls
      /\ ConnectionPolls = {} => pc = "WaitConnected"
      /\ \A i \in 1..Len(trace) :
           /\ Interaction(i) => \E j \in ConnectionPolls : j < i
           /\ (i \in ConnectionPolls /\ i < Len(trace) /\ i + 1 \notin ConnectionPolls)
                => Is(trace[i + 1], "ExecuteScript", "listeners")
           /\ (i \in ConnectionPolls /\ i + 1 \notin ConnectionPolls /\ pc # "WaitConnected")
                => (ConnectionWarning <=> ~trace[i].ok)
           /\ ~Is(trace[i], "Click", "submit") /\ ~Is(trace[i], "PollEval", "url changed")
           /\ trace[i].op = "Sleep" /\ trace[i].arg = "settle" => trace[i].ms = 100
      /\ ConnectionWarning => ~HasNote("Phoenix LiveView connected")

C18_TimeoutThenDynamicRun ==
    /\ isLiveView /\ ConnectionWarning /\ result.kind = "ok"
    /\ \E i \in 1..Len(trace) : trace[i] = Ev("ExecuteScript", "listeners", 0, TRUE)
    /\ \E i \in 1..Len(trace) : trace[i] = Ev("SendKeys", "#form:Enter", 0, TRUE)
    /\ \E i \in 1..Len(trace) : trace[i] = Ev("Sleep", "settle", 100, TRUE)

Probes == {i \in 1..Len(trace) : Is(trace[i], "ExecuteScript", "probe")}

LiveViewOnly(i) ==
    \/ Is(trace[i], "SendKeys", "#form:Enter") /\ ~Is(trace[i - 2], "FindElement", "submit")
    \/ Is(trace[i], "PollEval", "loading === true")
    \/ Is(trace[i], "PollEval", "loading === false")
    \/ trace[i] = Ev("Sleep", "settle", 100, TRUE)

StaticOnly(i) ==
    \/ Is(trace[i], "FindElement", "submit")
    \/ Is(trace[i], "Click", "submit")
    \/ Is(trace[i], "PollEval", "url changed")
    \/ Is(trace[i], "PollEval", "readyState complete")
    \/ trace[i] = Ev("Sleep", "settle", 200, TRUE)

C19_State ==
    /\ Cardinality(Probes) <= 1
    /\ Probes = {} => ~isLiveView
    /\ \A i \in Probes :
         /\ \A j \in 1..(i - 1) :
              trace[j].op \notin {"FindElement", "Clear", "SendKeys", "Click", "PollEval",
                                  "Sleep", "Screenshot", "PageSource"}
         /\ ~trace[i].ok => /\ ~isLiveView
                            /\ i = Len(trace) => pc = AfterDetect
    /\ \A i \in 1..Len(trace) :
         /\ LiveViewOnly(i) => isLiveView
         /\ StaticOnly(i) => ~isLiveView
    /\ pc \in {"LV_FindForm", "JS_LV_Sleep"} => isLiveView
    /\ pc \in {"St_FindSubmit", "JS_St_Sleep"} => ~isLiveView

C19_Step == Probes # {} => isLiveView' = isLiveView

\* C19: the page is probed at most once, before any call on the form or the
\* script, and isLiveView never changes afterwards: the way the form is
\* submitted and the wait after the script both follow it, whatever the page
\* has become in between; a probe that fails leaves isLiveView false and the
\* run goes on.
C19_ModeFixedByOneProbe == []C19_State /\ [][C19_Step]_vars

C19_OtherKindAfterSubmit ==
    /\ isLiveView /\ ~page.dynamic /\ pc = "JS_LV_WaitStart"
    /\ \E i \in 1..Len(trace) : trace[i] = Ev("SendKeys", "#form:Enter", 0, TRUE)
    /\ trace[Len(trace)] = Ev("Sleep", "settle", 100, TRUE)

\* The step appends event e, and e is a failure that does not end the run: an
\* injected script that failed, or a poll for the connection, for the end of
\* a navigation or for the page load that timed out.
WarnedFailure(e) ==
    \/ e.op = "ExecuteScript" /\ e.arg \in {"capture", "listeners", "js"} /\ ~e.ok
    \/ /\ e.op = "PollEval" /\ ~e.ok /\ pc' # pc
       /\ e.arg \in {".phx-connected", "loading === false", "readyState complete"}

\* The query of the browser's log failed.
LogQueryFailure(e) == e = Ev("Log", "browser", 0, FALSE)

\* The step writes a note on one of the two streams.
NoteWritten ==
    \/ \E k \in (Len(stdout) + 1)..Len(stdout') : stdout'[k].kind = "note"
    \/ Len(stderr') > Len(stderr)

Appended(e) == trace' = Append(trace, e)

C20_StepWarned ==
    \A e \in {trace'[k] : k \in (Len(trace) + 1)..Len(trace')} :
      (Appended(e) /\ WarnedFailure(e)) => NoteWritten

C20_StepAll ==
    \A e \in {trace'[k] : k \in (Len(trace) + 1)..Len(trace')} :
      (Appended(e) /\ (WarnedFailure(e) \/ LogQueryFailure(e))) => NoteWritten

\* The part of C20 that the code keeps: a failed injection, a failed script
\* and each of the three timeouts write a note in the step where they happen.
C20_WarnedFailures == [][C20_StepWarned]_vars

\* C20: every step in which one of the four failures that do not end the run
\* happens (a failed script injection, a connection or navigation timeout, a
\* failed query of the browser's log) writes a warning.
C20_EveryFailureWarned == [][C20_StepAll]_vars

\* The position of the script's execution in the trace (0 when it has not run).
ScriptAt ==
    IF \E i \in 1..Len(trace) : Is(trace[i], "ExecuteScript", "js")
      THEN CHOOSE i \in 1..Len(trace) : Is(trace[i], "ExecuteScript", "js")
      ELSE 0

AfterScript == IF ScriptAt = 0 THEN {} ELSE (ScriptAt + 1)..Len(trace)

StartPoll(i) == Is(trace[i], "PollEval", "loading === true")

StopPoll(i) == Is(trace[i], "PollEval", "loading === false")

URLRead(i) == Is(trace[i], "CurrentURL", "after")

StartSeen == \E i \in AfterScript : StartPoll(i) /\ trace[i].ok

DynamicWaitPcs ==
    {"JS_LV_Sleep", "JS_LV_WaitStart", "JS_LV_NewURL", "JS_LV_Stabilize", "JS_LV_WaitStop"}

DynamicOutcomes ==
    {"Phoenix LiveView navigation completed",
     "Warning: Navigation did not complete within timeout",
     "URL changed, waiting for page to stabilize...",
     "Info: No navigation detected (in-place LiveView update)"}

\* The notes written since the script wait was announced.
WaitAnnounced(k) ==
    /\ stdout[k] = [kind |-> "note", text |-> "Waiting for Phoenix LiveView navigation..."]
    /\ \A m \in (k + 1)..Len(stdout) : stdout[m] # stdout[k]

OutcomeNotes ==
    {m \in 1..Len(stdout) :
       /\ stdout[m].kind = "note" /\ stdout[m].text \in DynamicOutcomes
       /\ \E k \in 1..(m - 1) : WaitAnnounced(k)}

OutcomeIs(note) == \E m \in OutcomeNotes : stdout[m].text = note

\* C21: on a LiveView page the wait after the script is, in this order, the
\* settle delay of 100 ms, the poll of at most 1 s for loading === true, then
\* either (seen) the poll of at most 10 s for loading === false, ending in
\* "completed" or in the timeout warning, or (not seen) one read of the URL,
\* ending in "URL changed" with a delay of 500 ms or in "in-place update"; the
\* poll for false is never started unless true was seen, the URL is never read
\* when it was, and a finished wait has written exactly one of the four notes.
C21_DynamicWaitOrder ==
    (isLiveView /\ ScriptAt # 0) =>
      /\ pc \notin {"JS_Execute", "JS_LV_Sleep"} => trace[ScriptAt + 1] = Ev("Sleep", "settle", 100, TRUE)
      /\ \A i \in AfterScript :
           /\ StartPoll(i) => /\ trace[i].ms = 1000
                              /\ trace[i - 1].op = "Sleep" \/ (StartPoll(i - 1) /\ ~trace[i - 1].ok)
           /\ StopPoll(i) => /\ trace[i].ms = 10000
                             /\ (StartPoll(i - 1) /\ trace[i - 1].ok)
                                  \/ (StopPoll(i - 1) /\ ~trace[i - 1].ok)
           /\ URLRead(i) => StartPoll(i - 1) /\ ~trace[i - 1].ok
           /\ Is(trace[i], "Sleep", "stabilize") => URLRead(i - 1) /\ trace[i].ms = 500
      /\ Cardinality({i \in AfterScript : StartPoll(i)}) <= PollBudget(1000)
      /\ Cardinality({i \in AfterScript : StopPoll(i)}) <= PollBudget(10000)
      /\ Cardinality({i \in AfterScript : URLRead(i)}) <= 1
      /\ (\E i \in AfterScript : StopPoll(i)) => StartSeen
      /\ (\E i \in AfterScript : URLRead(i)) => ~StartSeen
      /\ pc \in DynamicWaitPcs \ {"JS_LV_Stabilize"} => OutcomeNotes = {}
      /\ pc \notin DynamicWaitPcs \cup {"JS_Execute"} =>
           /\ Cardinality(OutcomeNotes) = 1
           /\ OutcomeIs("Phoenix LiveView navigation completed")
                <=> \E i \in AfterScript : StopPoll(i) /\ trace[i].ok
           /\ OutcomeIs("Warning: Navigation did not complete within timeout")
                <=> StartSeen /\ ~\E i \in AfterScript : StopPoll(i) /\ trace[i].ok
           /\ OutcomeIs("URL changed, waiting for page to stabilize...")
                <=> \E i \in AfterScript : Is(trace[i], "Sleep", "stabilize")
           /\ OutcomeIs("Info: No navigation detected (in-place LiveView update)")
                <=> /\ \E i \in AfterScript : URLRead(i)
                    /\ ~\E i \in AfterScript : Is(trace[i], "Sleep", "stabilize")

C21_StartSeenThenTimeout ==
    /\ isLiveView /\ ScriptAt # 0 /\ StartSeen /\ result.kind = "ok"
    /\ OutcomeIs("Warning: Navigation did not complete within timeout")
    /\ \E i \in AfterScript : StopPoll(i) /\ ~trace[i].ok

URLPoll(i) == Is(trace[i], "PollEval", "url changed")

ReadyPoll(i) == Is(trace[i], "PollEval", "readyState complete")

URLSeenChanged == \E i \in AfterScript : URLPoll(i) /\ trace[i].ok

StaticWaitPcs == {"JS_St_Sleep", "JS_St_WaitURL", "JS_St_WaitReady"}

InPlaceNote == HasNote("Info: No navigation detected (page update without URL change)")

C22_State ==
    (~isLiveView /\ ScriptAt # 0) =>
      /\ pc \notin {"JS_Execute", "JS_St_Sleep"} => trace[ScriptAt + 1] = Ev("Sleep", "settle", 200, TRUE)
      /\ \A i \in AfterScript :
           /\ URLPoll(i) => /\ trace[i].ms = 5000
                            /\ trace[i - 1].op = "Sleep" \/ (URLPoll(i - 1) /\ ~trace[i - 1].ok)
           /\ ReadyPoll(i) => /\ trace[i].ms = 5000
                              /\ (URLPoll(i - 1) /\ trace[i - 1].ok)
                                   \/ (ReadyPoll(i - 1) /\ ~trace[i - 1].ok)
      /\ Cardinality({i \in AfterScript : URLPoll(i)}) <= PollBudget(5000)
      /\ (\E i \in AfterScript : ReadyPoll(i)) => URLSeenChanged
      /\ pc \notin {"JS_Execute", "JS_St_Sleep", "JS_St_WaitURL"} =>
           /\ navigationOccurred <=> URLSeenChanged
           /\ HasNote("Navigation detected, waiting for page load...") <=> URLSeenChanged
           /\ InPlaceNote <=> ~URLSeenChanged
           /\ InPlaceNote =>
                /\ Cardinality({i \in AfterScript : URLPoll(i)}) = PollBudget(5000)
                /\ ~\E i \in AfterScript : ReadyPoll(i)

\* One step of the poll for the URL: it goes on to the ready state only when
\* the URL it read differs from currentURL, it gives up only when its time is
\* over, and a read that fails is one more evaluation that saw no change.
C22_Step ==
    pc = "JS_St_WaitURL" =>
      /\ pc' \in {"JS_St_WaitURL", "JS_St_WaitReady", AfterJS}
      /\ result' = result
      /\ pc' = "JS_St_WaitReady" => page.url # currentURL /\ faults' = faults
      /\ pc' = AfterJS => pollLeft <= 1 /\ (page.url = currentURL \/ faults' # faults)
      /\ faults' # faults =>
           /\ trace' = Append(trace, Ev("PollEval", "url changed", 5000, FALSE))
           /\ pollLeft > 1 => pc' = pc /\ pollLeft' = pollLeft - 1

\* C22: on a page that is not a LiveView page the wait after the script polls
\* the ready state only after the poll for the URL has read a URL that differs
\* from the one read before the script (currentURL); when no evaluation of the
\* whole poll sees a change the wait ends with the in-place note and without
\* a poll of the ready state; and a failed read of the URL during the poll is
\* an evaluation that saw no change: the poll goes on, no error is returned.
C22_StaticWait == []C22_State /\ [][C22_Step]_vars

C22_ReadFailsThenChangeSeen ==
    /\ ~isLiveView /\ ScriptAt # 0 /\ faults = 1 /\ result.kind = "ok"
    /\ \A i \in 1..Len(trace) : ~trace[i].ok => URLPoll(i) /\ page.url # currentURL
    /\ \E i \in AfterScript : URLPoll(i) /\ ~trace[i].ok /\ URLPoll(i + 1) /\ trace[i + 1].ok
    /\ \E i \in AfterScript : ReadyPoll(i) /\ trace[i].ok

PollPcs ==
    {"WaitConnected", "LV_WaitStart", "LV_WaitStop", "JS_LV_WaitStart", "JS_LV_WaitStop",
     "JS_St_WaitURL", "JS_St_WaitReady"}

\* What the condition polled at pc reads from the page.
ConditionHolds ==
    CASE pc = "WaitConnected" -> page.connected
      [] pc \in {"LV_WaitStart", "JS_LV_WaitStart"} -> LoadingIs(page, TRUE)
      [] pc \in {"LV_WaitStop", "JS_LV_WaitStop"} -> LoadingIs(page, FALSE)
      [] pc = "JS_St_WaitURL" -> page.url # currentURL
      [] pc = "JS_St_WaitReady" -> page.ready
      [] OTHER -> FALSE

\* The step is one evaluation of the condition polled at pc.
Evaluation == pc \in PollPcs /\ Len(trace') = Len(trace) + 1

Evaluated == trace'[Len(trace')]

C23_Step ==
    Evaluation =>
      /\ Evaluated.op = "PollEval"
      /\ result' = result /\ pc' # "exit"
      /\ Evaluated.ok <=> (ConditionHolds /\ faults' = faults)
      /\ Evaluated.ok => pc' # pc
      /\ ~Evaluated.ok =>
           /\ pollLeft > 1 => pc' = pc /\ pollLeft' = pollLeft - 1
           /\ pc' # pc => pollLeft <= 1
      /\ faults' # faults => ConditionHolds /\ ~Evaluated.ok

\* C23: an evaluation of a poll's condition that fails, or whose reply is no
\* boolean, counts as "not yet": it never ends the poll before its time is
\* over and never becomes an error of the run; a poll ends only with an
\* evaluation that returns true or with the last evaluation of its budget, and
\* it ends at the first evaluation that returns true, whatever failed before.
C23_FailedEvaluationIsNotYet == [][C23_Step]_vars

C23_ConnectedAfterFailedEvaluation ==
    /\ isLiveView /\ faults = 1 /\ page.connected
    /\ HasNote("Phoenix LiveView connected")
    /\ \E i \in ConnectionPolls :
         /\ ~trace[i].ok /\ i + 1 \in ConnectionPolls /\ trace[i + 1].ok
         /\ \A j \in 1..Len(trace) : ~trace[j].ok => j = i

\* The runs in which every phase takes place: a form with its fields, a
\* script and a screenshot, with or without an after-submit URL and --raw.
InitFair ==
    /\ Init
    /\ config.FormID = "form" /\ Len(config.Inputs) >= 1
    /\ config.JSCode = "js" /\ config.ScreenshotPath = "shot.png"

\* The program under the assumption that every call it makes returns: a step
\* of processRequest that can be taken is taken.  The page owes nothing.
SpecFair == InitFair /\ [][Next]_vars /\ WF_vars(Program)

\* Lines 908-910: each replacement of the loop leaves a strictly shorter text.
LoopShortens == \A t \in Texts : ContainsBlankRun(t) => Len(ReplaceBlankRun(t)) < Len(t)

\* C24: every run ends: when each call returns, processRequest returns (a
\* result, an error or a panic) and main exits, whatever the page does and
\* whether or not the conditions waited for ever hold; and each turn of
\* cleanMarkdown's loop on blank lines shortens the text.
C24_Terminates == <>(pc = "exit" /\ LoopShortens)

C24_ExitAfterTimeouts ==
    /\ pc = "exit" /\ result.kind = "ok" /\ isLiveView
    /\ idx = Len(config.Inputs) + 1 /\ Len(config.Inputs) = MaxFields
    /\ ConnectionWarning
    /\ HasNote("Warning: Navigation did not complete within timeout")

CaptureInstalls == {i \in 1..Len(trace) : Is(trace[i], "ExecuteScript", "capture")}

InstrumentedEntries ==
    {k \in 1..Len(consoleMessages) : consoleMessages[k].source = "instrumented"}

C25_State ==
    /\ Cardinality(CaptureInstalls) <= 1
    /\ \A i \in CaptureInstalls :
         /\ i > 1 /\ trace[i - 1] = Ev("Get", baseURL, 0, TRUE)
         /\ \A j \in 1..(i - 2) : trace[j].op # "Get"
    /\ page.capture => page.doc = 1 /\ \E i \in CaptureInstalls : trace[i].ok
    /\ page.doc > 1 => ~page.capture /\ page.captured = <<>>
    /\ \A i \in CaptureQueries : \E j \in 1..(i - 1) : trace[j].op = "PageSource"
    /\ content.doc > 1 => InstrumentedEntries = {}

\* The read of the list on a document that is not the first one adds nothing.
C25_Step ==
    (pc = "QueryCaptured" /\ pc' # pc /\ page.doc > 1) => consoleMessages' = consoleMessages

\* C25: the capture list is installed once at most, right after the first
\* navigation, and read only after the page source; it lives in the first
\* document only, so after any later document load (after-submit navigation,
\* or a full load caused by the form or the script) the list read at the end is
\* empty: neither what was captured before the load nor a console call made
\* on the new document reaches the merged log.
C25_CaptureLostOnNavigation == []C25_State /\ [][C25_Step]_vars

C25_CallsLostAfterNavigation ==
    /\ pc = "exit" /\ result.kind = "ok" /\ CapturedRead
    /\ \E i \in CaptureInstalls : trace[i].ok
    /\ \E i \in 1..Len(trace) : trace[i] = Ev("Get", "after", 0, TRUE)
    /\ emitted = MaxLogs /\ browserLog = <<>>
    /\ consoleMessages = <<>>

FormPcs ==
    {"Form_FindElement", "Form_Clear", "Form_SendKeys", "LV_FindForm", "LV_SendEnter",
     "LV_WaitStart", "LV_WaitStop", "St_FindSubmit", "St_Click", "St_FindForm", "St_SendEnter"}

FormEvent(i) == trace[i].op \in {"FindElement", "Clear", "SendKeys", "Click"}

FormErrors ==
    {"error handling form: could not find input", "error handling form: could not clear input",
     "error handling form: could not fill input",
     "error handling form: could not find LiveView form",
     "error handling form: could not submit LiveView form",
     "error handling form: could not click submit button",
     "error handling form: could not submit form"}

\* Event i belongs to the script, screenshot or content phase.
LaterPhase(i) ==
    \/ trace[i].op \in {"CurrentURL", "Screenshot", "PageSource"}
    \/ Is(trace[i], "ExecuteScript", "js")
    \/ Is(trace[i], "Get", "after")

\* C26: the form is handled only when a form id and at least one field are
\* given.  Without one of them no element is located, cleared, filled or
\* clicked, nothing is submitted, no wait for a navigation runs before the
\* script, no form error is returned, and the script and content phases follow
\* the detection; with both, the first field is located before any later phase.
C26_FormNeedsIdAndFields ==
    /\ ~HasForm =>
         /\ pc \notin FormPcs
         /\ \A i \in 1..Len(trace) :
              /\ ~FormEvent(i)
              /\ (StartPoll(i) \/ StopPoll(i)) => i \in AfterScript /\ trace[i].ms # 2000
         /\ ~HasNote("Form submitted") /\ ~HasNote("LiveView form submitted")
         /\ triggered => ScriptAt # 0
         /\ result.kind = "error" => result.msg \notin FormErrors
    /\ HasForm =>
         \A i \in 1..Len(trace) :
           LaterPhase(i) => \E j \in 1..(i - 1) : Is(trace[j], "FindElement", config.Inputs[1])

C26_FormIdWithoutFields ==
    /\ config.FormID = "form" /\ config.Inputs = <<>>
    /\ pc = "exit" /\ result.kind = "ok"
    /\ ScriptAt # 0
    /\ \E i \in 1..Len(trace) : trace[i].op = "PageSource" /\ trace[i].ok

StopPcs == {"LV_WaitStop", "JS_LV_WaitStop"}

\* The state object is gone while the program waits for loading === false.
Wiped == pc \in StopPcs /\ page.navState = "absent"

NavigationWarning == [kind |-> "note", text |-> "Warning: Navigation did not complete within timeout"]

C27_Step ==
    Wiped =>
      /\ page'.navState = "absent"
      /\ result' = result /\ pc' # "exit"
      /\ Len(trace') = Len(trace) + 1 =>
           /\ trace'[Len(trace')] = Ev("PollEval", "loading === false", 10000, FALSE)
           /\ pollLeft > 1 => pc' = pc /\ pollLeft' = pollLeft - 1
           /\ pc' # pc =>
                /\ pollLeft <= 1
                /\ pc' = (IF pc = "LV_WaitStop" THEN AfterForm ELSE AfterJS)
                /\ Len(stdout') > Len(stdout) /\ stdout'[Len(stdout) + 1] = NavigationWarning

\* C27: on a LiveView page, once a full-document load has removed the state
\* object after loading === true was seen, no evaluation of the poll for
\* loading === false succeeds: the poll uses up its budget and ends with the
\* warning "Navigation did not complete within timeout", and the run goes on
\* with the phase that follows the wait.
C27_WipedWaitTimesOut == [][C27_Step]_vars

C27_WipedThenPageSource ==
    /\ isLiveView /\ StartSeen /\ pc = "exit" /\ result.kind = "ok"
    /\ page.navState = "absent" /\ page.doc = 2 /\ pageEvents = 1
    /\ ~\E i \in 1..Len(trace) : Is(trace[i], "Get", "after")
    /\ Cardinality({i \in AfterScript : StopPoll(i) /\ ~trace[i].ok}) = PollBudget(10000)
    /\ \E m \in OutcomeNotes : stdout[m] = NavigationWarning
    /\ \E i \in AfterScript : trace[i] = Ev("PageSource", "", 0, TRUE)

====
